---- MODULE Spec2Model ----
(***************************************************************************)
(* QNNPACK initialization gate and kernel registry (src/init.c).           *)
(*                                                                         *)
(* Threads call qnnp_initialize() and qnnp_deinitialize() concurrently.    *)
(* qnnp_initialize() first asks cpuinfo for the capability snapshot, then  *)
(* runs init() through pthread_once(&init_guard, &init) and finally reads  *)
(* qnnp_params.initialized.  init() is modelled statement by statement, so *)
(* that a partially populated registry is a state of the model.            *)
(***************************************************************************)
EXTENDS Integers, Sequences, FiniteSets, TLC

\* ------------------------------------------------------------------ bounds
NThreads == 2
MaxCalls == 2
\* Calls made in all, by all threads together, in a run of FairSpec.
MaxLiveCalls == 2

Threads == 1..NThreads

\* ------------------------------------------------------- program constants
\* SIZE_MAX is the all-ones size_t value, (size_t) -1; it is written -1 here
\* because the model checker's integers are narrower than size_t.
SIZE_MAX == -1

\* A kernel slot that no designated initializer names is a null pointer.
NULL == "NULL"

\* Build targets: the three branches of the #if chain in init().
Archs == {"ARM", "ARM64", "X86"}

\* cpuinfo_get_core(0)->uarch: the three cores the switch names, and any other.
Uarchs == {"cortex_a72", "cortex_a73", "cortex_a75", "other"}

Statuses == {"success", "unsupported_hardware", "out_of_memory"}

VARIABLES
  arch,          \* build target (fixed for the process)
  simd,          \* cpuinfo_has_arm_neon() / cpuinfo_has_x86_sse2() on this host
  uarch,         \* cpuinfo_get_core(0)->uarch on this host
  init_guard,    \* the pthread_once_t control
  qnnp_params,   \* the registry
  pc,            \* pc[t]: where thread t is
  ipos,          \* ipos[t]: next statement of init() for a thread inside it
  op,            \* op[t]: the entry point t called last
  status,        \* status[t]: what the last call of t that returned, returned
  ncalls,        \* ncalls[t]: calls t has made
  cpuinfo_result,\* cpuinfo_result[t]: what cpuinfo_initialize() returned in
                 \* the qnnp_initialize() call t made last ("none": no such call)
  cpuinfo_calls, \* invocations of cpuinfo_initialize()
  init_runs,     \* executions of init()
  returned,      \* statuses qnnp_initialize() has returned so far
  pool           \* the global-average-pooling run of the conformance test

host == <<arch, simd, uarch>>
vars == <<arch, simd, uarch, init_guard, qnnp_params, pc, ipos, op, status,
          ncalls, cpuinfo_result, cpuinfo_calls, init_runs, returned, pool>>

\* ---------------------------------------------------------------- registry
\* struct qnnp_parameters with static storage: .initialized = false and every
\* other member zero.
ZeroParams ==
  [ initialized |-> FALSE,
    q8conv      |-> [gemm |-> NULL, conv |-> NULL, mr |-> 0, nr |-> 0, kr |-> 0],
    q8conv_xzp  |-> [gemm |-> NULL, mr |-> 0, nr |-> 0, kr |-> 0, kc |-> 0,
                     kthreshold |-> 0],
    q8dw9       |-> [updw |-> NULL, cr |-> 0],
    q8dw25      |-> [mpdw |-> NULL, cr |-> 0],
    q8sum_rows  |-> [sum_rows |-> NULL, m |-> 0],
    q8add       |-> [uvadd |-> NULL],
    q8gavgpool  |-> [ltnr |-> NULL, genr_lemr |-> NULL, genr_gtmr |-> NULL,
                     mr |-> 0, nr |-> 0],
    x8zip       |-> [x2 |-> NULL, x3 |-> NULL, x4 |-> NULL, xm |-> NULL] ]

\* The compound literal init() assigns to member f on build target a.  Members
\* a literal does not name are zero.
Entry(a, f) ==
  CASE f = "q8conv" ->
         IF a = "ARM" THEN
           [gemm |-> "q8gemm_ukernel_4x8__aarch32_neon",
            conv |-> "q8conv_ukernel_4x8__aarch32_neon",
            mr |-> 4, nr |-> 8, kr |-> 1]
         ELSE IF a = "ARM64" THEN
           [gemm |-> "q8gemm_ukernel_8x8__aarch64_neon",
            conv |-> "q8conv_ukernel_8x8__aarch64_neon",
            mr |-> 8, nr |-> 8, kr |-> 1]
         ELSE
           [gemm |-> "q8gemm_ukernel_4x4c2__sse2",
            conv |-> "q8conv_ukernel_4x4c2__sse2",
            mr |-> 4, nr |-> 4, kr |-> 2]
    [] f = "q8conv_xzp" ->
         IF a = "ARM" THEN
           [gemm |-> "q8gemm_xzp_ukernel_4x8c2__aarch32_neon",
            mr |-> 4, nr |-> 8, kr |-> 2, kc |-> 8, kthreshold |-> SIZE_MAX]
         ELSE
           [gemm |-> NULL, mr |-> 0, nr |-> 0, kr |-> 0, kc |-> 0,
            kthreshold |-> SIZE_MAX]
    [] f = "q8dw9" ->
         [updw |-> IF a = "ARM" THEN "q8updw_ukernel_9c8__aarch32_neon"
                   ELSE IF a = "ARM64" THEN "q8updw_ukernel_9c8__neon"
                   ELSE "q8updw_ukernel_9c8__sse2",
          cr |-> 8]
    [] f = "q8dw25" ->
         [mpdw |-> IF a = "X86" THEN "q8mpdw_ukernel_25c8__sse2"
                   ELSE "q8mpdw_ukernel_25c8__neon",
          cr |-> 8]
    [] f = "q8sum_rows" ->
         [sum_rows |-> "q8sumrows_ukernel_4x__neon", m |-> 4]
    [] f = "q8add" ->
         [uvadd |-> IF a = "X86" THEN "q8uvadd_ukernel__sse2"
                    ELSE "q8uvadd_ukernel__neon"]
    [] f = "q8gavgpool" ->
         IF a = "X86" THEN
           [ltnr |-> "q8gavgpool_ukernel_up8xm__sse2",
            genr_lemr |-> "q8gavgpool_ukernel_up8x7__sse2",
            genr_gtmr |-> "q8gavgpool_ukernel_mp8x7__sse2",
            mr |-> 7, nr |-> 8]
         ELSE
           [ltnr |-> "q8gavgpool_ukernel_up8xm__neon",
            genr_lemr |-> "q8gavgpool_ukernel_up8x7__neon",
            genr_gtmr |-> "q8gavgpool_ukernel_mp8x7__neon",
            mr |-> 7, nr |-> 8]
    [] f = "x8zip" ->
         IF a = "X86" THEN
           [x2 |-> "qnnp_x8zip_x2__sse2", x3 |-> "qnnp_x8zip_x3__sse2",
            x4 |-> "qnnp_x8zip_x4__sse2", xm |-> "qnnp_x8zip_xm__sse2"]
         ELSE
           [x2 |-> "qnnp_x8zip_x2__neon", x3 |-> "qnnp_x8zip_x3__neon",
            x4 |-> "qnnp_x8zip_x4__neon", xm |-> "qnnp_x8zip_xm__neon"]

\* Mutant: the cortex_a72 case without its break, falling into cortex_a73.
XzpThreshold_fallthrough(u, k) ==
  CASE u = "cortex_a72" -> 256
    [] u = "cortex_a73" -> 256
    [] u = "cortex_a75" -> 32
    [] OTHER -> k

\* The switch on cpuinfo_get_core(0)->uarch: the threshold it leaves in
\* q8conv_xzp.kthreshold, given the threshold k it finds there.
XzpThreshold(u, k) ==
  CASE u = "cortex_a72" -> 64
    [] u = "cortex_a73" -> 256
    [] u = "cortex_a75" -> 32
    [] OTHER -> k

\* Mutant: the baseline check placed after the first registry assignment.
InitProgram_check_late(a) ==
  CASE a = "ARM" ->
         << "q8conv", "check_simd", "q8conv_xzp", "switch_uarch", "q8dw9",
            "q8dw25", "q8sum_rows", "q8add", "q8gavgpool", "x8zip",
            "initialized" >>
    [] a = "ARM64" ->
         << "q8conv", "q8conv_xzp", "q8dw9", "q8dw25", "q8add", "q8gavgpool",
            "x8zip", "initialized" >>
    [] a = "X86" ->
         << "q8conv", "check_simd", "q8conv_xzp", "q8dw9", "q8dw25", "q8add",
            "q8gavgpool", "x8zip", "initialized" >>

\* The statements of init() on build target a, in program order.
InitProgram(a) ==
  CASE a = "ARM" ->
         << "check_simd", "q8conv", "q8conv_xzp", "switch_uarch", "q8dw9",
            "q8dw25", "q8sum_rows", "q8add", "q8gavgpool", "x8zip",
            "initialized" >>
    [] a = "ARM64" ->
         << "q8conv", "q8conv_xzp", "q8dw9", "q8dw25", "q8add", "q8gavgpool",
            "x8zip", "initialized" >>
    [] a = "X86" ->
         << "check_simd", "q8conv", "q8conv_xzp", "q8dw9", "q8dw25", "q8add",
            "q8gavgpool", "x8zip", "initialized" >>

\* Mutant: the 32-bit and 64-bit ARM branches take each other's q8conv
\* literal (the #if conditions exchanged).
Exec_q8conv_other_branch(a, u, s, p) ==
  CASE s = "check_simd" -> p
    [] s = "switch_uarch" ->
         [p EXCEPT !.q8conv_xzp.kthreshold = XzpThreshold(u, @)]
    [] s = "initialized" -> [p EXCEPT !.initialized = TRUE]
    [] s = "q8conv" ->
         [p EXCEPT !.q8conv = Entry(IF a = "ARM" THEN "ARM64"
                                    ELSE IF a = "ARM64" THEN "ARM" ELSE a, s)]
    [] OTHER -> [p EXCEPT ![s] = Entry(a, s)]

\* Mutant: the x8zip assignment lost.
Exec_skips_x8zip(a, u, s, p) ==
  CASE s = "check_simd" -> p
    [] s = "switch_uarch" ->
         [p EXCEPT !.q8conv_xzp.kthreshold = XzpThreshold(u, @)]
    [] s = "initialized" -> [p EXCEPT !.initialized = TRUE]
    [] s = "x8zip" -> p
    [] OTHER -> [p EXCEPT ![s] = Entry(a, s)]

\* Mutant: the q8gavgpool literal with a row tile of 8 for its 7-row kernels.
Exec_gavgpool_mr_8(a, u, s, p) ==
  CASE s = "check_simd" -> p
    [] s = "switch_uarch" ->
         [p EXCEPT !.q8conv_xzp.kthreshold = XzpThreshold(u, @)]
    [] s = "initialized" -> [p EXCEPT !.initialized = TRUE]
    [] s = "q8gavgpool" ->
         [p EXCEPT !.q8gavgpool = [Entry(a, s) EXCEPT !.mr = 8]]
    [] OTHER -> [p EXCEPT ![s] = Entry(a, s)]

\* Mutant: the q8gavgpool literal without its .genr_gtmr member.
Exec_gavgpool_no_multipass(a, u, s, p) ==
  CASE s = "check_simd" -> p
    [] s = "switch_uarch" ->
         [p EXCEPT !.q8conv_xzp.kthreshold = XzpThreshold(u, @)]
    [] s = "initialized" -> [p EXCEPT !.initialized = TRUE]
    [] s = "q8gavgpool" ->
         [p EXCEPT !.q8gavgpool = [Entry(a, s) EXCEPT !.genr_gtmr = NULL]]
    [] OTHER -> [p EXCEPT ![s] = Entry(a, s)]

\* The registry after statement s of init() has run on registry p.
Exec(a, u, s, p) ==
  CASE s = "check_simd" -> p
    [] s = "switch_uarch" ->
         [p EXCEPT !.q8conv_xzp.kthreshold = XzpThreshold(u, @)]
    [] s = "initialized" -> [p EXCEPT !.initialized = TRUE]
    [] OTHER -> [p EXCEPT ![s] = Entry(a, s)]

\* ------------------------------------------- global average pooling (Q8)
\* The rows one invocation of the q8gavgpool micro-kernels bound by init()
\* takes: up8x7 sums up to 7 rows, mp8x7 accumulates 7 rows per pass.
KernelRows == 7

\* Widths run from 1 to MaxTiles * mr + 1.
MaxTiles == 1

\* Values an input sample takes (of 0..255).
Samples == {10, 20, 255}

\* Scales, as fractions <<numerator, denominator>>: the default 1.0 and the
\* two ends of the geometric sweep of the tests, 0.01 and 94.9.
DefaultScale == <<1, 1>>
SweptScales == {<<1, 100>>, <<949, 10>>}

\* Zero points the tests sweep (0, 51, ..., 255), and the default, 128.
ZeroPoints == {51 * i : i \in 0..5} \cup {128}

\* The tester's configuration with every field at its default.
DefaultQuant ==
  [ inputScale |-> DefaultScale, outputScale |-> DefaultScale,
    inputZeroPoint |-> 128, outputZeroPoint |-> 128,
    outputMin |-> 0, outputMax |-> 255 ]

\* Quantization parameters of a run: one scale swept and the rest at its
\* default, or the scales at 1.0 with any output zero point and the output
\* range whole, cut at 128 from below, or cut at 128 from above.
QuantConfigs ==
  { [DefaultQuant EXCEPT !.inputScale = sc] : sc \in SweptScales }
  \cup { [DefaultQuant EXCEPT !.outputScale = sc] : sc \in SweptScales }
  \cup { [DefaultQuant EXCEPT !.outputZeroPoint = z,
                              !.outputMin = r[1], !.outputMax = r[2]] :
           z \in ZeroPoints, r \in {<<0, 255>>, <<128, 255>>, <<0, 128>>} }

\* n / d rounded to the nearest integer, ties to the even one (n >= 0, d > 0).
RoundHalfEven(n, d) ==
  LET q == n \div d
      r == n % d
  IN IF 2 * r < d THEN q
     ELSE IF 2 * r > d THEN q + 1
     ELSE IF q % 2 = 0 THEN q ELSE q + 1

\* Mutant: a clamp that applies only the lower limit.
Clamp_lower_only(v, lo, hi) == IF v < lo THEN lo ELSE v

\* v clamped to [lo, hi].
Clamp(v, lo, hi) == IF v < lo THEN lo ELSE IF v > hi THEN hi ELSE v

\* Mutant: requantization that forgets the output zero point.
Requantize_no_zero_point(sum, width, q) ==
  LET n == sum * q.inputScale[1] * q.outputScale[2]
      d == width * q.inputScale[2] * q.outputScale[1]
  IN Clamp(Clamp(RoundHalfEven(n, d), q.outputMin, q.outputMax), 0, 255)

\* Steps 2-4 of the reference algorithm on the sum of the width samples of one
\* output element: average, requantize with round-half-to-even, clamp to
\* [output_min, output_max], saturate to [0, 255].
Requantize(sum, width, q) ==
  LET n == sum * q.inputScale[1] * q.outputScale[2]
      d == width * q.inputScale[2] * q.outputScale[1]
      value == RoundHalfEven(n, d) + q.outputZeroPoint
  IN Clamp(Clamp(value, q.outputMin, q.outputMax), 0, 255)

\* The q8gavgpool micro-kernels by kind: one pass over any number of rows,
\* one pass over at most KernelRows rows, passes of KernelRows rows each.
UnipassXm == {"q8gavgpool_ukernel_up8xm__neon", "q8gavgpool_ukernel_up8xm__sse2"}
UnipassX7 == {"q8gavgpool_ukernel_up8x7__neon", "q8gavgpool_ukernel_up8x7__sse2"}
MultipassX7 == {"q8gavgpool_ukernel_mp8x7__neon", "q8gavgpool_ukernel_mp8x7__sse2"}

\* The kernel slot of the registry entry g the operator runs for a problem of
\* the given channels and width.
KernelSlot(g, channels, width) ==
  IF channels < g.nr THEN "ltnr"
  ELSE IF width <= g.mr THEN "genr_lemr"
  ELSE "genr_gtmr"

\* No pooling run yet.
NoPool ==
  [ phase |-> "idle", channels |-> 0, width |-> 0, slot |-> NULL,
    kernel |-> NULL, row |-> 0, acc |-> 0, buf |-> 0, ref |-> 0,
    q |-> DefaultQuant, out |-> 0, expected |-> 0 ]

\* ---------------------------------------------------------------- the gate
GateState ==
  CASE init_guard = "ONCE_INIT" -> "Unconstructed"
    [] init_guard = "IN_PROGRESS" -> "Constructing"
    [] init_guard = "DONE" ->
         IF qnnp_params.initialized THEN "Ready" ELSE "Unsupported"

Init ==
  /\ arch \in Archs
  /\ simd \in BOOLEAN
  /\ uarch \in Uarchs
  /\ init_guard = "ONCE_INIT"
  /\ qnnp_params = ZeroParams
  /\ pc = [t \in Threads |-> "idle"]
  /\ ipos = [t \in Threads |-> 0]
  /\ op = [t \in Threads |-> "none"]
  /\ status = [t \in Threads |-> "none"]
  /\ ncalls = [t \in Threads |-> 0]
  /\ cpuinfo_result = [t \in Threads |-> "none"]
  /\ cpuinfo_calls = 0
  /\ init_runs = 0
  /\ returned = {}
  /\ pool = NoPool

\* Mutant: a failed cpuinfo_initialize() recorded in the run-once control, so
\* that the failure is remembered.
qnnp_initialize_enter_remembers_failure(t) ==
  /\ pc[t] = "idle"
  /\ ncalls[t] < MaxCalls
  /\ ncalls' = [ncalls EXCEPT ![t] = @ + 1]
  /\ op' = [op EXCEPT ![t] = "qnnp_initialize"]
  /\ cpuinfo_calls' = cpuinfo_calls + 1
  /\ \E ok \in BOOLEAN :
       /\ cpuinfo_result' = [cpuinfo_result EXCEPT ![t] = IF ok THEN "ok" ELSE "failed"]
       /\ IF ok
            THEN /\ pc' = [pc EXCEPT ![t] = "once"]
                 /\ UNCHANGED <<status, returned, init_guard>>
            ELSE /\ pc' = [pc EXCEPT ![t] = "idle"]
                 /\ status' = [status EXCEPT ![t] = "out_of_memory"]
                 /\ returned' = returned \cup {"out_of_memory"}
                 /\ init_guard' = IF init_guard = "ONCE_INIT" THEN "DONE"
                                  ELSE init_guard
  /\ UNCHANGED <<host, pool, qnnp_params, ipos, init_runs>>

\* qnnp_initialize(), up to the pthread_once call: cpuinfo_initialize() is
\* invoked on every call, and its failure is returned at once as
\* out_of_memory.  What cpuinfo_initialize() returns is an input of the call.
qnnp_initialize_enter(t) ==
  /\ pc[t] = "idle"
  /\ ncalls[t] < MaxCalls
  /\ ncalls' = [ncalls EXCEPT ![t] = @ + 1]
  /\ op' = [op EXCEPT ![t] = "qnnp_initialize"]
  /\ cpuinfo_calls' = cpuinfo_calls + 1
  /\ \E ok \in BOOLEAN :
       /\ cpuinfo_result' = [cpuinfo_result EXCEPT ![t] = IF ok THEN "ok" ELSE "failed"]
       /\ IF ok
            THEN /\ pc' = [pc EXCEPT ![t] = "once"]
                 /\ UNCHANGED <<status, returned>>
            ELSE /\ pc' = [pc EXCEPT ![t] = "idle"]
                 /\ status' = [status EXCEPT ![t] = "out_of_memory"]
                 /\ returned' = returned \cup {"out_of_memory"}
  /\ UNCHANGED <<host, pool, init_guard, qnnp_params, ipos, init_runs>>

\* Mutant: init() called without the run-once control deciding (as a direct
\* call of init() in place of pthread_once would do).
pthread_once_run_unguarded(t) ==
  /\ pc[t] = "once"
  /\ init_guard' = "IN_PROGRESS"
  /\ init_runs' = init_runs + 1
  /\ pc' = [pc EXCEPT ![t] = "init"]
  /\ ipos' = [ipos EXCEPT ![t] = 1]
  /\ UNCHANGED <<host, pool, qnnp_params, op, status, ncalls, cpuinfo_result,
                 cpuinfo_calls, returned>>

\* pthread_once(&init_guard, &init), first caller: takes the control and
\* starts executing init().
pthread_once_run(t) ==
  /\ pc[t] = "once"
  /\ init_guard = "ONCE_INIT"
  /\ init_guard' = "IN_PROGRESS"
  /\ init_runs' = init_runs + 1
  /\ pc' = [pc EXCEPT ![t] = "init"]
  /\ ipos' = [ipos EXCEPT ![t] = 1]
  /\ UNCHANGED <<host, pool, qnnp_params, op, status, ncalls, cpuinfo_result,
                 cpuinfo_calls, returned>>

\* Mutant: a run-once test that lets a caller through as soon as init() has
\* been started, without waiting for it to complete (a bare "started" flag).
pthread_once_done_nowait(t) ==
  /\ pc[t] = "once"
  /\ init_guard # "ONCE_INIT"
  /\ pc' = [pc EXCEPT ![t] = "check"]
  /\ UNCHANGED <<host, pool, init_guard, qnnp_params, ipos, op, status, ncalls,
                 cpuinfo_result, cpuinfo_calls, init_runs, returned>>

\* pthread_once(&init_guard, &init), init() already complete: returns without
\* calling it.  While the control is IN_PROGRESS the caller waits: neither
\* pthread_once action is enabled.
pthread_once_done(t) ==
  /\ pc[t] = "once"
  /\ init_guard = "DONE"
  /\ pc' = [pc EXCEPT ![t] = "check"]
  /\ UNCHANGED <<host, pool, init_guard, qnnp_params, ipos, op, status, ncalls,
                 cpuinfo_result, cpuinfo_calls, init_runs, returned>>

\* Mutant: the baseline feature check never fails.
init_never_returns_early(s, has_simd) == FALSE

\* The baseline feature check of init(): statement s makes init() return
\* early when the host lacks the feature.  Only the ARM and x86 branches hold
\* such a statement.
init_returns_early(s, has_simd) == s = "check_simd" /\ ~has_simd

\* Mutant: an init() whose early return leaves the run-once control held, as
\* a hand-written guard that is released only at the end of init() would.
init_early_return_holds_guard(t) ==
  /\ pc[t] = "init"
  /\ LET prog == InitProgram(arch)
         s    == prog[ipos[t]]
     IN /\ qnnp_params' = IF init_returns_early(s, simd) THEN qnnp_params
                          ELSE Exec(arch, uarch, s, qnnp_params)
        /\ IF init_returns_early(s, simd)
             THEN /\ pc' = [pc EXCEPT ![t] = "check"]
                  /\ ipos' = [ipos EXCEPT ![t] = 0]
                  /\ UNCHANGED init_guard
             ELSE IF ipos[t] = Len(prog)
               THEN /\ init_guard' = "DONE"
                    /\ pc' = [pc EXCEPT ![t] = "check"]
                    /\ ipos' = [ipos EXCEPT ![t] = 0]
               ELSE /\ ipos' = [ipos EXCEPT ![t] = @ + 1]
                    /\ UNCHANGED <<init_guard, pc>>
  /\ UNCHANGED <<host, pool, op, status, ncalls, cpuinfo_result, cpuinfo_calls,
                 init_runs, returned>>

\* One statement of init().  The baseline check returns from init() when the
\* feature is absent; the last statement sets .initialized.  When init()
\* returns, pthread_once marks the control complete and returns too.
init(t) ==
  /\ pc[t] = "init"
  /\ LET prog == InitProgram(arch)
         s    == prog[ipos[t]]
         exit == \/ init_returns_early(s, simd)
                 \/ ipos[t] = Len(prog)
     IN /\ qnnp_params' = IF init_returns_early(s, simd) THEN qnnp_params
                          ELSE Exec(arch, uarch, s, qnnp_params)
        /\ IF exit
             THEN /\ init_guard' = "DONE"
                  /\ pc' = [pc EXCEPT ![t] = "check"]
                  /\ ipos' = [ipos EXCEPT ![t] = 0]
             ELSE /\ ipos' = [ipos EXCEPT ![t] = @ + 1]
                  /\ UNCHANGED <<init_guard, pc>>
  /\ UNCHANGED <<host, pool, op, status, ncalls, cpuinfo_result, cpuinfo_calls,
                 init_runs, returned>>

\* Mutant: the two branches of the final test exchanged.
InitializeStatus_swapped(initialized) ==
  IF initialized THEN "unsupported_hardware" ELSE "success"

\* The status qnnp_initialize() returns after pthread_once, given the
\* readiness flag it reads.
InitializeStatus(initialized) ==
  IF initialized THEN "success" ELSE "unsupported_hardware"

\* qnnp_initialize(), after pthread_once: reads qnnp_params.initialized and
\* returns.
qnnp_initialize_return(t) ==
  /\ pc[t] = "check"
  /\ pc' = [pc EXCEPT ![t] = "idle"]
  /\ status' = [status EXCEPT ![t] = InitializeStatus(qnnp_params.initialized)]
  /\ returned' = returned \cup {InitializeStatus(qnnp_params.initialized)}
  /\ UNCHANGED <<host, pool, init_guard, qnnp_params, ipos, op, ncalls,
                 cpuinfo_result, cpuinfo_calls, init_runs>>

\* Mutant: a teardown that also resets the gate.
qnnp_deinitialize_reverting(t) ==
  /\ pc[t] = "idle"
  /\ ncalls[t] < MaxCalls
  /\ ncalls' = [ncalls EXCEPT ![t] = @ + 1]
  /\ op' = [op EXCEPT ![t] = "qnnp_deinitialize"]
  /\ status' = [status EXCEPT ![t] = "success"]
  /\ cpuinfo_result' = [cpuinfo_result EXCEPT ![t] = "none"]
  /\ init_guard' = IF init_guard = "DONE" THEN "ONCE_INIT" ELSE init_guard
  /\ qnnp_params' = IF init_guard = "DONE"
                      THEN [qnnp_params EXCEPT !.initialized = FALSE]
                      ELSE qnnp_params
  /\ UNCHANGED <<host, pool, pc, ipos, cpuinfo_calls, init_runs, returned>>

\* qnnp_deinitialize(): cpuinfo_deinitialize(), then success.  It touches
\* neither init_guard nor qnnp_params.
qnnp_deinitialize(t) ==
  /\ pc[t] = "idle"
  /\ ncalls[t] < MaxCalls
  /\ ncalls' = [ncalls EXCEPT ![t] = @ + 1]
  /\ op' = [op EXCEPT ![t] = "qnnp_deinitialize"]
  /\ status' = [status EXCEPT ![t] = "success"]
  /\ cpuinfo_result' = [cpuinfo_result EXCEPT ![t] = "none"]
  /\ UNCHANGED <<host, pool, init_guard, qnnp_params, pc, ipos, cpuinfo_calls,
                 init_runs, returned>>

\* ----------------------------------- the global-average-pooling test run
\* The variables of the gate and the registry, which a pooling run reads only.
gate == <<init_guard, qnnp_params, pc, ipos, op, status, ncalls,
          cpuinfo_result, cpuinfo_calls, init_runs, returned>>

\* The thread that runs the test.
Tester == 1

\* A test case: after ASSERT_EQ(qnnp_status_success, qnnp_initialize()) it
\* reads mr and nr from qnnp_params.q8gavgpool, picks channels around nr and a
\* width, and runs the operator, which selects the micro-kernel of the slot.
PoolSetup ==
  /\ pool.phase = "idle"
  /\ op[Tester] = "qnnp_initialize" /\ pc[Tester] = "idle"
  /\ status[Tester] = "success"
  /\ LET g == qnnp_params.q8gavgpool IN
     \E channels \in {g.nr - 1, g.nr, g.nr + 1},
        width \in 1..(MaxTiles * g.mr + 1) :
       LET slot == KernelSlot(g, channels, width) IN
       pool' = [NoPool EXCEPT !.phase = "rows", !.channels = channels,
                              !.width = width, !.slot = slot,
                              !.kernel = g[slot]]
  /\ UNCHANGED <<host, gate>>

\* One row of one channel: the reference adds the sample to its sum; the
\* kernel adds it to its accumulator if the row is within what it reads, and
\* a multipass kernel moves the accumulator to its buffer after a full pass
\* that is not the last.
PoolRow ==
  /\ pool.phase = "rows"
  /\ pool.row < pool.width
  /\ \E x \in Samples :
       LET row == pool.row + 1
           reads == pool.kernel \in UnipassX7 => row <= KernelRows
           acc == IF reads THEN pool.acc + x ELSE pool.acc
           flush == /\ pool.kernel \in MultipassX7
                    /\ row % KernelRows = 0
                    /\ row < pool.width
       IN pool' = [pool EXCEPT !.row = row, !.ref = @ + x,
                               !.acc = IF flush THEN 0 ELSE acc,
                               !.buf = IF flush THEN @ + acc ELSE @]
  /\ UNCHANGED <<host, gate>>

\* The kernel requantizes what it accumulated and writes the output element;
\* the reference requantizes its own sum.
PoolFinish ==
  /\ pool.phase = "rows"
  /\ pool.row = pool.width
  /\ \E q \in QuantConfigs :
       pool' = [pool EXCEPT !.phase = "done", !.q = q, !.acc = 0, !.buf = 0,
                  !.out = Requantize(pool.buf + pool.acc, pool.width, q),
                  !.expected = Requantize(pool.ref, pool.width, q)]
  /\ UNCHANGED <<host, gate>>

Next ==
  \E t \in Threads :
    \/ qnnp_initialize_enter(t)
    \/ pthread_once_run(t)
    \/ pthread_once_done(t)
    \/ init(t)
    \/ qnnp_initialize_return(t)
    \/ qnnp_deinitialize(t)

Spec == Init /\ [][Next]_vars

\* Fair scheduling of the threads: a thread that is inside a qnnp_initialize()
\* call and can take its next step eventually takes it.  Nothing obliges a
\* thread to make a call.
Fairness ==
  \A t \in Threads :
    /\ WF_vars(pthread_once_run(t))
    /\ WF_vars(pthread_once_done(t))
    /\ WF_vars(init(t))
    /\ WF_vars(qnnp_initialize_return(t))

RECURSIVE CallsOf(_)
CallsOf(T) ==
  IF T = {} THEN 0
  ELSE LET t == CHOOSE x \in T : TRUE IN ncalls[t] + CallsOf(T \ {t})

\* The steps of Next, with the calls made in all bounded by MaxLiveCalls.
FairNext ==
  \E t \in Threads :
    \/ CallsOf(Threads) < MaxLiveCalls /\ qnnp_initialize_enter(t)
    \/ pthread_once_run(t)
    \/ pthread_once_done(t)
    \/ init(t)
    \/ qnnp_initialize_return(t)
    \/ CallsOf(Threads) < MaxLiveCalls /\ qnnp_deinitialize(t)

FairSpec == Init /\ [][FairNext]_vars /\ Fairness

\* The first test case of the test process: one thread, which calls
\* qnnp_initialize() once and, if that returned success, runs one pooling
\* problem.
PoolInit == Init /\ uarch = "other"

PoolNext ==
  \/ ncalls[Tester] = 0 /\ qnnp_initialize_enter(Tester)
  \/ pthread_once_run(Tester)
  \/ init(Tester)
  \/ qnnp_initialize_return(Tester)
  \/ PoolSetup
  \/ PoolRow
  \/ PoolFinish

PoolSpec == PoolInit /\ [][PoolNext]_vars

TypeOK ==
  /\ arch \in Archs /\ simd \in BOOLEAN /\ uarch \in Uarchs
  /\ cpuinfo_result \in [Threads -> {"none", "ok", "failed"}]
  /\ init_guard \in {"ONCE_INIT", "IN_PROGRESS", "DONE"}
  /\ pc \in [Threads -> {"idle", "once", "init", "check"}]
  /\ op \in [Threads -> {"none", "qnnp_initialize", "qnnp_deinitialize"}]
  /\ status \in [Threads -> Statuses \cup {"none"}]
  /\ returned \subseteq Statuses
  /\ pool.phase \in {"idle", "rows", "done"}
  /\ pool.row \in 0..pool.width
  /\ pool.q \in QuantConfigs
  /\ pool.out \in 0..255 /\ pool.expected \in 0..255

\* ------------------------------------------------------------- vocabulary
\* Thread t has made a qnnp_initialize() call and that call has returned.
Returned(t) == op[t] = "qnnp_initialize" /\ pc[t] = "idle"

\* A step in which a qnnp_initialize() call of t returns.
InitializeReturns(t) ==
  \/ pc[t] = "check" /\ pc'[t] = "idle"
  \/ pc[t] = "idle" /\ pc'[t] = "idle" /\ op'[t] = "qnnp_initialize"
       /\ ncalls'[t] = ncalls[t] + 1

\* A step in which t calls qnnp_initialize().
InitializeCalled(t) ==
  pc[t] = "idle" /\ op'[t] = "qnnp_initialize" /\ ncalls'[t] = ncalls[t] + 1

\* A step in which t calls (and returns from) qnnp_deinitialize().
DeinitializeCalled(t) ==
  pc[t] = "idle" /\ op'[t] = "qnnp_deinitialize" /\ ncalls'[t] = ncalls[t] + 1

Terminal == {"Ready", "Unsupported"}

RegistryFields ==
  {"q8conv", "q8conv_xzp", "q8dw9", "q8dw25", "q8sum_rows", "q8add",
   "q8gavgpool", "x8zip"}

\* The members init() assigns on build target a.
Populated(a) ==
  {InitProgram(a)[i] : i \in 1..Len(InitProgram(a))} \cap RegistryFields

\* The value member f holds once init() has run to its end.
FinalEntry(a, u, f) ==
  IF f \notin Populated(a) THEN ZeroParams[f]
  ELSE IF f = "q8conv_xzp" /\ a = "ARM"
    THEN [Entry(a, f) EXCEPT !.kthreshold = XzpThreshold(u, SIZE_MAX)]
    ELSE Entry(a, f)

RegistryFinal ==
  \A f \in RegistryFields : qnnp_params[f] = FinalEntry(arch, uarch, f)

\* ------------------------------------------------------------------ claims

\* C1: for any number of threads calling qnnp_initialize concurrently, under
\* every interleaving exactly one thread performs the Unconstructed ->
\* Constructing transition and init() executes exactly once: never more than
\* one thread is inside init(), init() has run at most once, the gate has left
\* Unconstructed exactly when that run began, and every caller that is past
\* the guard (or has returned a status other than out_of_memory) finds exactly
\* one execution.
C1_InitExactlyOnce ==
  /\ init_runs <= 1
  /\ Cardinality({t \in Threads : pc[t] = "init"}) <= 1
  /\ (init_runs = 0) <=> (init_guard = "ONCE_INIT")
  /\ ( \/ \E t \in Threads : pc[t] \in {"init", "check"}
       \/ returned \cap {"success", "unsupported_hardware"} # {} )
     => init_runs = 1

\* Two first calls in flight at once, both past the guard, one execution.
C1_Witness ==
  \E t1, t2 \in Threads :
    /\ t1 # t2
    /\ pc[t1] = "check" /\ pc[t2] = "check"
    /\ ncalls[t1] = 1 /\ ncalls[t2] = 1
    /\ init_runs = 1

C3_NoReturnWhileConstructing ==
  /\ \A t \in Threads : pc[t] = "check" => init_guard = "DONE"
  /\ \A t \in Threads :
       (pc[t] = "check" /\ qnnp_params.initialized) => RegistryFinal
  /\ returned \cap {"success", "unsupported_hardware"} # {}
       => init_guard = "DONE"
  /\ "success" \in returned => (qnnp_params.initialized /\ RegistryFinal)

\* A caller waits at the guard while another thread is about to execute the
\* last statement of init().
C3_Witness ==
  \E t1, t2 \in Threads :
    /\ t1 # t2
    /\ pc[t1] = "once"
    /\ pc[t2] = "init" /\ ipos[t2] = Len(InitProgram(arch))
    /\ GateState = "Constructing"

\* C4 (as stated): a qnnp_initialize call made after the gate has reached
\* Ready or Unsupported does not invoke cpuinfo_initialize again.
C4_Original ==
  [][ (GateState \in Terminal) => (cpuinfo_calls' = cpuinfo_calls) ]_vars

\* C4 (amended): init() - the baseline feature check, the microarchitecture
\* lookup and the registry population - is executed once per process: after
\* the gate has reached Ready or Unsupported no call executes it again or
\* moves the gate, and a call that returns through the guard returns the
\* memoized outcome.  cpuinfo_initialize, however, is invoked once by every
\* qnnp_initialize call, before and after the gate is terminal.
C4_InitOncePerProcess ==
  [][ /\ GateState \in Terminal
         => /\ init_runs' = init_runs
            /\ GateState' = GateState
            /\ \A t \in Threads :
                 (pc[t] = "check" /\ pc'[t] = "idle")
                   => status'[t] = IF GateState = "Ready" THEN "success"
                                   ELSE "unsupported_hardware"
      /\ \A t \in Threads :
           InitializeCalled(t) => cpuinfo_calls' = cpuinfo_calls + 1
    ]_vars

\* One thread alone: its first call returned success, its second call has
\* invoked cpuinfo_initialize again and is past the guard without a second
\* execution of init().
C4_Witness ==
  \E t \in Threads :
    /\ \A u \in Threads \ {t} : ncalls[u] = 0
    /\ ncalls[t] = 2 /\ cpuinfo_calls = 2
    /\ "success" \in returned
    /\ pc[t] = "check"
    /\ init_runs = 1

\* C5: every qnnp_initialize call returns exactly one of success,
\* unsupported_hardware, out_of_memory: out_of_memory iff cpuinfo_initialize
\* failed in that call, unsupported_hardware iff it succeeded and the
\* readiness flag is false after the guard, success iff it succeeded and the
\* flag is true.
C5_StatusCases ==
  \A t \in Threads :
    Returned(t) =>
      /\ status[t] \in Statuses
      /\ status[t] = "out_of_memory" <=> cpuinfo_result[t] = "failed"
      /\ status[t] = "unsupported_hardware"
           <=> (cpuinfo_result[t] = "ok" /\ ~qnnp_params.initialized)
      /\ status[t] = "success"
           <=> (cpuinfo_result[t] = "ok" /\ qnnp_params.initialized)

\* One caller was refused for lack of a snapshot, another for lack of the
\* baseline feature.
C5_Witness ==
  \E t1, t2 \in Threads :
    /\ Returned(t1) /\ status[t1] = "out_of_memory"
    /\ Returned(t2) /\ status[t2] = "unsupported_hardware"

\* C6 (as stated): on every build target (ARM32, ARM64, x86/x64), if the
\* baseline SIMD feature is absent, construction ends in Unsupported and
\* qnnp_initialize returns unsupported_hardware (to every caller that got its
\* snapshot), never success.
C6_Original ==
  ~simd =>
    /\ init_guard = "DONE" => GateState = "Unsupported"
    /\ "success" \notin returned
    /\ \A t \in Threads :
         (Returned(t) /\ cpuinfo_result[t] = "ok")
           => status[t] = "unsupported_hardware"

\* C6 (amended): on ARM32 and x86/x64, if the baseline SIMD feature is absent,
\* construction ends in Unsupported and qnnp_initialize returns
\* unsupported_hardware to every caller that got its snapshot, never success.
\* On ARM64 init() makes no baseline check: construction always ends in Ready.
C6_BaselineChecked ==
  /\ (arch \in {"ARM", "X86"} /\ ~simd) =>
       /\ init_guard = "DONE" => GateState = "Unsupported"
       /\ "success" \notin returned
       /\ \A t \in Threads :
            (Returned(t) /\ cpuinfo_result[t] = "ok")
              => status[t] = "unsupported_hardware"
  /\ (arch = "ARM64" /\ init_guard = "DONE") => GateState = "Ready"

\* A host of a checked family lacks the feature and a caller has been told so.
C6_Witness ==
  /\ arch \in {"ARM", "X86"} /\ ~simd
  /\ GateState = "Unsupported"
  /\ \E t \in Threads : Returned(t) /\ status[t] = "unsupported_hardware"

C8_TerminalStates ==
  [][ /\ GateState \in Terminal
         => (GateState' = GateState /\ init_guard' = init_guard)
      /\ \A t \in Threads :
           DeinitializeCalled(t)
             => /\ status'[t] = "success"
                /\ init_guard' = init_guard
                /\ qnnp_params' = qnnp_params
                /\ init_runs' = init_runs
    ]_vars

\* One thread alone has constructed the registry and then torn down.
C8_Witness ==
  \E t \in Threads :
    /\ \A u \in Threads \ {t} : ncalls[u] = 0
    /\ ncalls[t] = 2
    /\ op[t] = "qnnp_deinitialize" /\ status[t] = "success"
    /\ GateState \in Terminal

\* C9: once the registry is Ready, no step of any later qnnp_initialize or
\* qnnp_deinitialize call changes any registry entry (or the readiness flag).
C9_RegistryFrozen ==
  [][ qnnp_params.initialized => qnnp_params' = qnnp_params ]_vars

\* The registry is Ready, a teardown has been called, and a second
\* qnnp_initialize call of a thread whose first call returned is at the guard.
C9_Witness ==
  \E t, u \in Threads :
    /\ t # u
    /\ GateState = "Ready" /\ RegistryFinal
    /\ op[t] = "qnnp_deinitialize"
    /\ ncalls[u] = 2 /\ pc[u] = "once"
    /\ "success" \in returned

C11_EveryCallReturns ==
  \A t \in Threads : (pc[t] # "idle") ~> (pc[t] = "idle")

\* Every thread but the one executing init() waits at the guard.
C11_Witness ==
  \E t \in Threads :
    /\ pc[t] = "init"
    /\ \A u \in Threads \ {t} : pc[u] = "once"

\* C12: whenever the registry is Ready, the primary matmul/convolution entry
\* holds the fixed tiles of the build target - (mr, nr, kr) = (8, 8, 1) on
\* ARM64, (4, 8, 1) on ARM32, (4, 4, 2) on x86/x64 - with both its gemm and
\* its conv kernel slot bound.
C12_PrimaryTiles ==
  GateState = "Ready" =>
    LET c == qnnp_params.q8conv IN
      /\ <<c.mr, c.nr, c.kr>> =
           CASE arch = "ARM64" -> <<8, 8, 1>>
             [] arch = "ARM"   -> <<4, 8, 1>>
             [] arch = "X86"   -> <<4, 4, 2>>
      /\ c.gemm # NULL /\ c.conv # NULL

\* A Ready registry on a 64-bit ARM build, observed by a returned caller.
C12_Witness ==
  /\ GateState = "Ready" /\ arch = "ARM64"
  /\ qnnp_params.q8conv.mr = 8
  /\ \E t \in Threads : Returned(t) /\ status[t] = "success"

\* C13: whenever the registry is Ready, the xzp entry's kthreshold is
\* SIZE_MAX unless the build target is ARM32 and the reference core is one of
\* exactly three microarchitectures, each with its own finite threshold
\* (cortex_a72: 64, cortex_a73: 256, cortex_a75: 32); every other
\* microarchitecture, and every microarchitecture on ARM64 and x86/x64, keeps
\* SIZE_MAX.
C13_XzpThreshold ==
  GateState = "Ready" =>
    LET k == qnnp_params.q8conv_xzp.kthreshold IN
      IF arch = "ARM" /\ uarch \in {"cortex_a72", "cortex_a73", "cortex_a75"}
        THEN /\ k # SIZE_MAX
             /\ k = (CASE uarch = "cortex_a72" -> 64
                       [] uarch = "cortex_a73" -> 256
                       [] uarch = "cortex_a75" -> 32)
        ELSE k = SIZE_MAX

\* A Ready 32-bit ARM registry built on a cortex_a72 core.
C13_Witness ==
  /\ GateState = "Ready" /\ arch = "ARM" /\ uarch = "cortex_a72"
  /\ qnnp_params.q8conv_xzp.kthreshold = 64

\* The kernel slots of the xzp and channel-interleave entries.
XzpZipSlots(p) ==
  {p.q8conv_xzp.gemm, p.x8zip.x2, p.x8zip.x3, p.x8zip.x4, p.x8zip.xm}

\* The kernel slots of the entries the claim calls populated on every family,
\* row-sum aside.
CommonSlots(p) ==
  {p.q8dw9.updw, p.q8dw25.mpdw, p.q8add.uvadd, p.q8gavgpool.ltnr,
   p.q8gavgpool.genr_lemr, p.q8gavgpool.genr_gtmr,
   p.x8zip.x2, p.x8zip.x3, p.x8zip.x4, p.x8zip.xm}

\* C14 (as stated): on ARM32, after construction some xzp/zip kernel slot is
\* left unset, while the depthwise-convolution, row-sum, elementwise-add,
\* global-average-pooling and channel-interleave entries are populated on
\* every family.
C14_Original ==
  GateState = "Ready" =>
    /\ arch = "ARM" => NULL \in XzpZipSlots(qnnp_params)
    /\ NULL \notin CommonSlots(qnnp_params)
    /\ qnnp_params.q8sum_rows.sum_rows # NULL

\* C14 (amended): on ARM32 every kernel slot is bound after construction, the
\* xzp gemm slot and the four channel-interleave slots included.  It is on
\* ARM64 and x86/x64 that slots are left unset: the xzp entry has no kernel
\* and zero tiles, and the row-sum entry is not assigned at all.  The
\* depthwise-convolution (both), elementwise-add, global-average-pooling and
\* channel-interleave entries are populated on every family.
C14_UnsetSlots ==
  GateState = "Ready" =>
    /\ NULL \notin CommonSlots(qnnp_params)
    /\ qnnp_params.q8conv_xzp.gemm = NULL <=> arch # "ARM"
    /\ qnnp_params.q8sum_rows.sum_rows = NULL <=> arch # "ARM"
    /\ arch # "ARM" =>
         /\ qnnp_params.q8sum_rows = ZeroParams.q8sum_rows
         /\ qnnp_params.q8conv_xzp =
              [ZeroParams.q8conv_xzp EXCEPT !.kthreshold = SIZE_MAX]

\* A Ready 32-bit ARM registry with nothing unset, observed by a caller.
C14_Witness ==
  /\ GateState = "Ready" /\ arch = "ARM"
  /\ NULL \notin XzpZipSlots(qnnp_params)
  /\ qnnp_params.q8sum_rows.sum_rows # NULL
  /\ "success" \in returned

\* The pooling run has written its output element.
PoolDone == pool.phase = "done"

\* C15: every output element of the quantized global average pooling operator
\* lies in [outputMin, outputMax] and in [0, 255], whatever the width, the
\* channel count, the scales and the zero point, on the small-width path, on
\* the large-width path and on the few-channels path; with outputMin = 128 no
\* output is below 128 and with outputMax = 128 none is above 128.
C15_OutputInRange ==
  PoolDone =>
    /\ pool.q.outputMin <= pool.out /\ pool.out <= pool.q.outputMax
    /\ pool.out \in 0..255

\* A large-width run with outputMin = 128 whose requantized value, 10 + 0,
\* lies below the range and was clamped up to 128.
C15_Witness ==
  /\ PoolDone /\ pool.slot = "genr_gtmr" /\ pool.kernel \in MultipassX7
  /\ pool.width > qnnp_params.q8gavgpool.mr
  /\ pool.q.outputMin = 128 /\ pool.q.outputZeroPoint = 0
  /\ pool.ref = 10 * pool.width
  /\ pool.out = 128

C17_ConcreteScenario ==
  ( /\ PoolDone
    /\ pool.width = 2 /\ pool.channels = qnnp_params.q8gavgpool.nr
    /\ pool.q = DefaultQuant
    /\ pool.ref = 10 + 20 )
  => pool.out = 143

\* The scenario has run, on the one-pass kernel of the small-width path.
C17_Witness ==
  /\ PoolDone
  /\ pool.width = 2 /\ pool.channels = qnnp_params.q8gavgpool.nr
  /\ pool.q = DefaultQuant
  /\ pool.ref = 10 + 20
  /\ pool.slot = "genr_lemr" /\ pool.kernel \in UnipassX7
  /\ pool.out = 143

\* C18: a qnnp_initialize call that returns out_of_memory leaves the gate
\* exactly as it found it: the step that returns out_of_memory changes neither
\* the run-once control, nor the count of init() executions, nor the readiness
\* flag or any registry entry, and the returning thread never entered the
\* guard - so a gate that was Unconstructed before the call is Unconstructed
\* after it.
C18_OutOfMemoryLeavesGate ==
  [][ \A t \in Threads :
        (InitializeCalled(t) /\ status'[t] = "out_of_memory" /\ pc'[t] = "idle")
          => /\ cpuinfo_result'[t] = "failed"
             /\ init_guard' = init_guard
             /\ init_runs' = init_runs
             /\ qnnp_params' = qnnp_params
             /\ GateState' = GateState
    ]_vars

\* A call has returned out_of_memory and the gate is still Unconstructed.
C18_Witness ==
  /\ GateState = "Unconstructed" /\ init_runs = 0
  /\ qnnp_params = ZeroParams
  /\ \E t \in Threads :
       Returned(t) /\ status[t] = "out_of_memory" /\ cpuinfo_result[t] = "failed"

\* C19: when construction ends in Unsupported no registry entry has been
\* written: every entry holds its initial zero value and the readiness flag is
\* false.  Outside Constructing the registry is never partially populated: it
\* is all zero (Unconstructed, Unsupported) or complete (Ready).
C19_NoPartialRegistry ==
  /\ GateState = "Unsupported" => qnnp_params = ZeroParams
  /\ GateState = "Unconstructed" => qnnp_params = ZeroParams
  /\ GateState = "Ready" => (qnnp_params.initialized /\ RegistryFinal)

\* Construction has ended in Unsupported on a build target with a baseline
\* check, and a caller has been told so.
C19_Witness ==
  /\ GateState = "Unsupported" /\ arch \in {"ARM", "X86"} /\ ~simd
  /\ init_runs = 1
  /\ "unsupported_hardware" \in returned

\* C20: whenever the registry is Ready, on each of the three build targets the
\* global-average-pooling entry has mr = 7 and nr = 8 with all three kernel
\* slots (ltnr, genr_lemr, genr_gtmr) bound, so the loop bounds the
\* conformance tests read from it are positive and the same on every target.
C20_GavgpoolTiles ==
  GateState = "Ready" =>
    LET g == qnnp_params.q8gavgpool IN
      /\ g.mr = 7 /\ g.nr = 8
      /\ g.ltnr # NULL /\ g.genr_lemr # NULL /\ g.genr_gtmr # NULL

\* A Ready registry on an x86 build whose pooling tiles a caller may read.
C20_Witness ==
  /\ GateState = "Ready" /\ arch = "X86"
  /\ qnnp_params.q8gavgpool.mr = 7 /\ qnnp_params.q8gavgpool.nr = 8
  /\ \E t \in Threads : Returned(t) /\ status[t] = "success"
====
